---- MODULE Spec2Model ----
(***************************************************************************)
(* A model of src/gui/sharemanager.cpp: the Share / LinkShare entities,    *)
(* the ShareManager that issues OcsShareJob requests and handles their     *)
(* callbacks, and updateFolder, which tells the sync folders that the      *)
(* sharing state of a remote path changed.                                 *)
(*                                                                         *)
(* Program strings (QString) are sequences of one-character strings, so    *)
(* that startsWith, midRef, concatenation and date parsing are computed.   *)
(* Messages of the env are opaque and stay TLA+ strings.                *)
(***************************************************************************)
EXTENDS Integers, Sequences, FiniteSets, TLC

VARIABLES
    account,    \* ShareManager::_account: [id, url, serverVersionInt]
    folderMap,  \* FolderMan::instance()->map(): alias -> [account, remotePath]
    folderLog,  \* per folder, the calls it received from updateFolder, in order
    shares,     \* the Share / LinkShare objects, by allocation order
    calls,      \* the public operations invoked so far, in order
    jobs,       \* per call, the OcsShareJobs it created so far, in order
    emitted,    \* per call, the signals emitted by its handlers, in order
    env         \* what the callers may pass and the request collaborator answer

vars == <<account, folderMap, folderLog, shares, calls, jobs, emitted, env>>

---------------------------------------------------------------------------
(* Bounds *)

\* number of public operations invoked in one behaviour
MaxCalls == 2

\* length of the generated paths of PathSpec
MaxPathLen == 3

---------------------------------------------------------------------------
(* Strings *)

EmptyString == <<>>

startsWith(s, p) == Len(p) <= Len(s) /\ SubSeq(s, 1, Len(p)) = p

endsWith(s, c) == Len(s) > 0 /\ s[Len(s)] = c

\* QString::mid(n) / midRef(n): the part from 0-based position n on
mid(s, n) == SubSeq(s, n + 1, Len(s))

Digit(d) == <<"0", "1", "2", "3", "4", "5", "6", "7", "8", "9">>[d + 1]

RECURSIVE number(_)
\* QString::number / QVariant(int).toString() for n >= 0
number(n) == IF n < 10 THEN <<Digit(n)>> ELSE number(n \div 10) \o <<Digit(n % 10)>>

DigitValue(c) ==
    CASE c = "0" -> 0 [] c = "1" -> 1 [] c = "2" -> 2 [] c = "3" -> 3
      [] c = "4" -> 4 [] c = "5" -> 5 [] c = "6" -> 6 [] c = "7" -> 7
      [] c = "8" -> 8 [] c = "9" -> 9 [] OTHER -> -1

IsDigits(s) == \A i \in 1..Len(s) : DigitValue(s[i]) >= 0

RECURSIVE ParseNat(_)
ParseNat(s) ==
    IF Len(s) = 0 THEN 0
    ELSE 10 * ParseNat(SubSeq(s, 1, Len(s) - 1)) + DigitValue(s[Len(s)])

---------------------------------------------------------------------------
(* QDate *)

NullDate == [valid |-> FALSE, y |-> 0, m |-> 0, d |-> 0]

DaysIn(y, m) ==
    IF m \in {4, 6, 9, 11} THEN 30
    ELSE IF m = 2
         THEN (IF (y % 4 = 0 /\ y % 100 # 0) \/ y % 400 = 0 THEN 29 ELSE 28)
         ELSE 31

QDate(y, m, d) ==
    IF m \in 1..12 /\ d >= 1 /\ d <= DaysIn(y, m)
    THEN [valid |-> TRUE, y |-> y, m |-> m, d |-> d]
    ELSE NullDate

\* the literal tail of the pattern "yyyy-MM-dd 00:00:00"
PatternTail == <<" ", "0", "0", ":", "0", "0", ":", "0", "0">>

\* QDate::fromString(s, "yyyy-MM-dd 00:00:00")
dateFromString(s) ==
    IF /\ Len(s) = 19
       /\ IsDigits(SubSeq(s, 1, 4)) /\ s[5] = "-"
       /\ IsDigits(SubSeq(s, 6, 7)) /\ s[8] = "-"
       /\ IsDigits(SubSeq(s, 9, 10))
       /\ SubSeq(s, 11, 19) = PatternTail
    THEN QDate(ParseNat(SubSeq(s, 1, 4)), ParseNat(SubSeq(s, 6, 7)),
               ParseNat(SubSeq(s, 9, 10)))
    ELSE NullDate

---------------------------------------------------------------------------
(* QJsonValue / QJsonObject.  An object carries every key the code reads;  *)
(* an absent key holds the Undefined value, which is what                  *)
(* QJsonObject::value returns for it.                                      *)

JUndefined == [t |-> "undefined", i |-> 0, s |-> EmptyString]
JInt(n) == [t |-> "int", i |-> n, s |-> EmptyString]
JString(str) == [t |-> "string", i |-> 0, s |-> str]

contains(v) == v.t # "undefined"
isString(v) == v.t = "string"
toInt(v) == IF v.t = "int" THEN v.i ELSE 0
toString(v) == IF v.t = "string" THEN v.s ELSE EmptyString
\* QJsonValue::toVariant().toString(): numbers and strings both give text
variantToString(v) ==
    IF v.t = "string" THEN v.s ELSE IF v.t = "int" THEN number(v.i) ELSE EmptyString

---------------------------------------------------------------------------
(* Permissions and share types (sharepermissions.h, sharemanager.h) *)

SharePermissionRead == 1
SharePermissionUpdate == 2
SharePermissionCreate == 4
SharePermissionDelete == 8
SharePermissionShare == 16
SharePermissionDefault == 1073741824

TypeUser == 0
TypeGroup == 1
TypeLink == 3

RECURSIVE BitAnd(_, _)
\* operator& of two non-negative ints
BitAnd(a, b) ==
    IF a = 0 \/ b = 0 THEN 0
    ELSE (a % 2) * (b % 2) + 2 * BitAnd(a \div 2, b \div 2)

\* every bit of a is a bit of b
SubMask(a, b) == BitAnd(a, b) = a

---------------------------------------------------------------------------
(* Account *)

\* Account::makeServerVersion
makeServerVersion(major, minor, patch) == major * 65536 + minor * 256 + patch

\* Utility::concatUrlPath(url, concatPath [, queryItems])
concatUrlPath(url, concatPath, query) ==
    LET base == IF endsWith(url, "/") THEN url ELSE url \o <<"/">>
        rel == IF startsWith(concatPath, <<"/">>) THEN mid(concatPath, 1) ELSE concatPath
    IN  base \o rel \o (IF Len(query) > 0 THEN <<"?">> \o query ELSE EmptyString)

IndexPhpS == <<"i", "n", "d", "e", "x", ".", "p", "h", "p", "/", "s", "/">>
PublicPhp == <<"p", "u", "b", "l", "i", "c", ".", "p", "h", "p">>
\* QUrlQuery with the items (service, files) and (t, token)
QueryArgs(token) ==
    <<"s", "e", "r", "v", "i", "c", "e", "=", "f", "i", "l", "e", "s", "&", "t", "=">>
        \o token

---------------------------------------------------------------------------
(* Entities *)

NullSharee == [null |-> TRUE, shareWith |-> EmptyString,
               displayName |-> EmptyString, type |-> 0]

Sharee(shareWith, displayName, type) ==
    [null |-> FALSE, shareWith |-> shareWith, displayName |-> displayName,
     type |-> type]

\* Share::Share; the LinkShare members are absent from a plain Share and are
\* held at their defaults
Share(acc, id, path, shareType, permissions, shareWith) ==
    [cls |-> "Share", account |-> acc, id |-> id, path |-> path,
     shareType |-> shareType, permissions |-> permissions,
     shareWith |-> shareWith,
     name |-> EmptyString, token |-> EmptyString, passwordSet |-> FALSE,
     expireDate |-> NullDate, url |-> EmptyString]

\* LinkShare::LinkShare
LinkShare(acc, id, path, name, token, permissions, passwordSet, url, expireDate) ==
    [Share(acc, id, path, TypeLink, permissions, NullSharee) EXCEPT
        !.cls = "LinkShare", !.name = name, !.token = token,
        !.passwordSet = passwordSet, !.expireDate = expireDate, !.url = url]

\* the server version tested before the url field
linkUrlVersionFirst(acc, data) ==
    IF acc.serverVersionInt >= makeServerVersion(8, 0, 0)
    THEN concatUrlPath(acc.url, IndexPhpS \o toString(data.token), EmptyString)
    ELSE IF contains(data.url)
         THEN toString(data.url)
         ELSE concatUrlPath(acc.url, PublicPhp, QueryArgs(toString(data.token)))

\* the url of ShareManager::parseLinkShare
linkUrl(acc, data) ==
    IF contains(data.url)
    THEN toString(data.url)
    ELSE IF acc.serverVersionInt >= makeServerVersion(8, 0, 0)
         THEN concatUrlPath(acc.url, IndexPhpS \o toString(data.token), EmptyString)
         ELSE concatUrlPath(acc.url, PublicPhp, QueryArgs(toString(data.token)))

\* ShareManager::parseLinkShare
parseLinkShare(acc, data) ==
    LinkShare(acc.id,
              variantToString(data.id),
              toString(data.path),
              toString(data.name),
              toString(data.token),
              toInt(data.permissions),
              isString(data.share_with),
              linkUrl(acc, data),
              IF isString(data.expiration)
              THEN dateFromString(toString(data.expiration))
              ELSE NullDate)

\* ShareManager::parseShare
parseShare(acc, data) ==
    Share(acc.id,
          variantToString(data.id),
          toString(data.path),
          toInt(data.share_type),
          toInt(data.permissions),
          Sharee(toString(data.share_with),
                 toString(data.share_with_displayname),
                 toInt(data.share_type)))

---------------------------------------------------------------------------
(* updateFolder *)

\* any string prefix taken for a match
folderMatchesPrefix(path, folderPath) == startsWith(path, folderPath)

\* the condition of updateFolder on one folder's remote path
folderMatches(path, folderPath) ==
    /\ startsWith(path, folderPath)
    /\ \/ path = folderPath
       \/ endsWith(folderPath, "/")
       \/ path[Len(folderPath) + 1] = "/"

\* the leading '/' kept
relativePathUnstripped(path, folderPath) == mid(path, Len(folderPath))

\* the path handed to avoidReadFromDbOnNextSync
relativePath(path, folderPath) ==
    LET relative == mid(path, Len(folderPath))
    IN  IF startsWith(relative, <<"/">>) THEN mid(relative, 1) ELSE relative

\* the calls one folder receives from updateFolder(acc, path)
folderCalls(f, acc, path) ==
    IF f.account # acc THEN <<>>
    ELSE IF folderMatches(path, f.remotePath)
         THEN << [op |-> "avoidReadFromDbOnNextSync",
                  arg |-> relativePath(path, f.remotePath)],
                 [op |-> "scheduleThisFolderSoon", arg |-> EmptyString] >>
         ELSE <<>>

\* updateFolder(account, path): the folders' logs afterwards
updateFolder(acc, path, log) ==
    [a \in DOMAIN folderMap |-> log[a] \o folderCalls(folderMap[a], acc, path)]

---------------------------------------------------------------------------
(* Values used by the callers and by the env *)

PathAB == <<"/", "a", "/", "b">>
PathABC == <<"/", "a", "/", "b", "/", "c">>
PathABc == <<"/", "a", "/", "b", "c">>
PathA == <<"/", "a">>
PathFoo == <<"/", "f", "o", "o">>
PathFoo2 == <<"/", "f", "o", "o", "2">>
PathRoot == <<"/">>

BaseUrl == <<"h", ":", "/", "/", "s", "/">>
Bob == <<"b", "o", "b">>
Token == <<"t", "k">>
Url == <<"h", ":", "/", "/", "s", "/", "x">>
Name1 == <<"n", "1">>
Name2 == <<"n", "2">>
Secret == <<"p", "w">>
Expiration == <<"2", "0", "2", "7", "-", "0", "2", "-", "2", "8">> \o PatternTail
\* a date without the time part: it does not fit the pattern
ExpirationShort == <<"2", "0", "2", "7", "-", "0", "2", "-", "2", "8">>

ReadUpdate == SharePermissionRead + SharePermissionUpdate
ReadCreateDelete == SharePermissionRead + SharePermissionCreate + SharePermissionDelete
ReadShare == SharePermissionRead + SharePermissionShare
AllPermissions == ReadUpdate + SharePermissionCreate + SharePermissionDelete
                    + SharePermissionShare

MyAccount == "A1"
OtherAccount == "A2"

\* an object none of whose keys is present
EmptyObject ==
    [id |-> JUndefined, path |-> JUndefined, name |-> JUndefined,
     token |-> JUndefined, permissions |-> JUndefined, share_with |-> JUndefined,
     share_with_displayname |-> JUndefined, share_type |-> JUndefined,
     url |-> JUndefined, expiration |-> JUndefined, file_target |-> JUndefined]

\* data of replies to createLinkShare
LinkPayloads ==
    { [EmptyObject EXCEPT !.id = JInt(42), !.path = JString(PathAB),
          !.share_type = JInt(TypeLink), !.token = JString(Token),
          !.permissions = JInt(SharePermissionRead)],
      [EmptyObject EXCEPT !.id = JString(<<"7">>), !.path = JString(PathABC),
          !.share_type = JInt(TypeLink), !.token = JString(Token),
          !.name = JString(Name1), !.url = JString(Url),
          !.share_with = JString(EmptyString),
          !.expiration = JString(Expiration)],
      [EmptyObject EXCEPT !.token = JString(Token)] }

\* data of replies to createShare
SharePayloads ==
    { [EmptyObject EXCEPT !.id = JInt(8), !.path = JString(PathAB),
          !.share_type = JInt(TypeUser), !.share_with = JString(Bob),
          !.share_with_displayname = JString(Bob),
          !.permissions = JInt(SharePermissionRead)],
      [EmptyObject EXCEPT !.id = JString(<<"9">>), !.path = JString(PathABc),
          !.share_type = JInt(TypeGroup)] }

\* an entry of the reply to getSharedWithMe
Entry(target, permissions) ==
    [EmptyObject EXCEPT !.file_target = target, !.permissions = permissions]

\* data of replies to getSharedWithMe
ProbeArrays ==
    { <<>>,
      << Entry(JString(PathAB), JInt(ReadUpdate)) >>,
      << Entry(JString(PathAB), JInt(SharePermissionRead)),
         Entry(JString(PathAB), JInt(ReadShare)) >>,
      << Entry(JString(PathAB), JUndefined),
         Entry(JUndefined, JInt(AllPermissions)) >> }

\* data of replies to getShares
FetchArrays ==
    { << [EmptyObject EXCEPT !.id = JInt(1), !.path = JString(PathAB),
             !.share_type = JInt(TypeLink), !.token = JString(Token)],
         [EmptyObject EXCEPT !.id = JInt(2), !.path = JString(PathAB),
             !.share_type = JInt(TypeUser), !.share_with = JString(Bob)] >>,
      << [EmptyObject EXCEPT !.id = JInt(3), !.path = JString(PathAB)] >> }

\* data of replies to setExpireDate
ExpirePayloads ==
    { EmptyObject,
      [EmptyObject EXCEPT !.expiration = JString(Expiration)],
      [EmptyObject EXCEPT !.expiration = JString(ExpirationShort)] }

Reply(code, message, data) == [code |-> code, message |-> message, data |-> data]
NoReply == Reply(0, "", <<>>)

\* the status code slotLinkShareCreated reads as "requires a password"
StatusForbidden == 403

\* arguments the callers pass
DesiredPermissions == { SharePermissionDefault, ReadCreateDelete }
NewPermissions == { SharePermissionRead, ReadUpdate }
NewNames == { Name1, Name2 }
NewPasswords == { EmptyString, Secret }
NewDates == { QDate(2027, 3, 1) }

\* the arguments the callers pass and the answers of the request collaborator
FullEnv ==
    [desired |-> DesiredPermissions, permissions |-> NewPermissions,
     names |-> NewNames, passwords |-> NewPasswords, dates |-> NewDates,
     errors |-> { <<StatusForbidden, "Forbidden">> },
     link |-> { Reply(StatusForbidden, "Password required", EmptyObject) }
                 \cup { Reply(100, "OK", d) : d \in LinkPayloads },
     share |-> { Reply(100, "OK", CHOOSE d \in SharePayloads : toInt(d.id) = 8) },
     probe |-> { Reply(100, "OK", a) : a \in ProbeArrays },
     fetch |-> { Reply(100, "OK", a) : a \in FetchArrays },
     update |-> { Reply(100, "OK", EmptyObject) },
     expire |-> { Reply(100, "OK", d) : d \in ExpirePayloads }]

\* one argument and one answer of each kind
SmallEnv ==
    [desired |-> { ReadCreateDelete }, permissions |-> { ReadUpdate },
     names |-> { Name2 }, passwords |-> { Secret }, dates |-> NewDates,
     errors |-> { <<404, "Not found">> },
     link |-> { Reply(StatusForbidden, "Password required", EmptyObject),
                Reply(100, "OK", CHOOSE d \in LinkPayloads : contains(d.url)) },
     share |-> { Reply(100, "OK", CHOOSE d \in SharePayloads : toInt(d.id) = 8) },
     probe |-> { Reply(100, "OK", CHOOSE a \in ProbeArrays : Len(a) = 1 /\ toInt(a[1].permissions) = ReadUpdate) },
     fetch |-> { Reply(100, "OK", CHOOSE a \in FetchArrays : Len(a) = 2) },
     update |-> { Reply(100, "OK", EmptyObject) },
     expire |-> { Reply(100, "OK", EmptyObject) }]

\* the env versions an account may report
ServerVersions ==
    { makeServerVersion(7, 0, 5), makeServerVersion(7, 255, 255),
      makeServerVersion(8, 0, 0), makeServerVersion(9, 1, 0) }

\* the sync folders configured in FolderMan
Folders ==
    [f1 |-> [account |-> MyAccount, remotePath |-> PathAB],
     f2 |-> [account |-> MyAccount, remotePath |-> PathRoot],
     f3 |-> [account |-> OtherAccount, remotePath |-> PathAB],
     f4 |-> [account |-> MyAccount, remotePath |-> PathABc]]

\* the objects the callers hold at the start, built with the public constructors
InitialShares ==
    << Share(MyAccount, <<"5">>, PathAB, TypeUser, AllPermissions,
             Sharee(Bob, Bob, TypeUser)),
       LinkShare(MyAccount, <<"6">>, PathABC, Name1, Token, SharePermissionRead,
                 FALSE, Url, NullDate) >>


---------------------------------------------------------------------------
(* Jobs, calls and signals *)

Signal(sig, code, message, path, list) ==
    [sig |-> sig, code |-> code, message |-> message, path |-> path, shares |-> list]

serverError(code, message) == Signal("serverError", code, message, EmptyString, <<>>)
passwordSetError(code, message) ==
    Signal("passwordSetError", code, message, EmptyString, <<>>)
linkShareRequiresPassword(message) ==
    Signal("linkShareRequiresPassword", 0, message, EmptyString, <<>>)
linkShareCreated(share) == Signal("linkShareCreated", 0, "", EmptyString, <<share>>)
shareCreated(share) == Signal("shareCreated", 0, "", EmptyString, <<share>>)
sharesFetched(list) == Signal("sharesFetched", 0, "", EmptyString, list)
Plain(sig) == Signal(sig, 0, "", EmptyString, <<>>)
\* not a signal: the handler's call of updateFolder(_account, path)
updateFolderCalled(path) == Signal("updateFolder", 0, "", path, <<>>)

NewJob(request, target, arg) ==
    [request |-> request, target |-> target, arg |-> arg,
     state |-> "pending", reply |-> NoReply]

\* the job of call c that is in flight, or the last one it had
Job(c) == jobs[c][Len(jobs[c])]

Pending(c, requests) ==
    /\ c \in 1..Len(jobs)
    /\ Job(c).state = "pending"
    /\ Job(c).request \in requests

\* the callback of the job of call c has fired
Finished(c, reply) ==
    [jobs EXCEPT ![c][Len(jobs[c])].state = "finished",
                 ![c][Len(jobs[c])].reply = reply]
Failed(c, code, message) ==
    [jobs EXCEPT ![c][Len(jobs[c])].state = "error",
                 ![c][Len(jobs[c])].reply = Reply(code, message, <<>>)]

Emit(call, signals) == [emitted EXCEPT ![call] = @ \o signals]

\* a caller invokes a public operation, which creates one job
Invoke(op, request, target, arg) ==
    /\ Len(calls) < MaxCalls
    /\ calls' = Append(calls, [op |-> op, target |-> target, arg |-> arg])
    /\ jobs' = Append(jobs, <<NewJob(request, target, arg)>>)
    /\ emitted' = Append(emitted, <<>>)
    /\ UNCHANGED <<account, folderMap, folderLog, shares, env>>

---------------------------------------------------------------------------
(* ShareManager *)

createLinkShare(path, name, password) ==
    Invoke("createLinkShare", "createLinkShare", 0,
           [path |-> path, name |-> name, password |-> password])

\* the return after linkShareRequiresPassword left out
slotLinkShareCreatedFallsThrough(j, reply) ==
    /\ Pending(j, {"createLinkShare"})
    /\ reply \in env.link
    /\ jobs' = Finished(j, reply)
    /\ LET share == parseLinkShare(account, reply.data)
       IN  /\ emitted' = Emit(j,
                  (IF reply.code = StatusForbidden
                   THEN <<linkShareRequiresPassword(reply.message)>> ELSE <<>>)
                  \o <<linkShareCreated(share), updateFolderCalled(share.path)>>)
           /\ folderLog' = updateFolder(account.id, share.path, folderLog)
    /\ UNCHANGED <<account, folderMap, shares, calls, env>>

slotLinkShareCreated(j, reply) ==
    /\ Pending(j, {"createLinkShare"})
    /\ reply \in env.link
    /\ jobs' = Finished(j, reply)
    /\ IF reply.code = StatusForbidden
       THEN /\ emitted' = Emit(j, <<linkShareRequiresPassword(reply.message)>>)
            /\ UNCHANGED folderLog
       ELSE LET share == parseLinkShare(account, reply.data)
            IN  /\ emitted' = Emit(j,
                                   <<linkShareCreated(share), updateFolderCalled(share.path)>>)
                /\ folderLog' = updateFolder(account.id, share.path, folderLog)
    /\ UNCHANGED <<account, folderMap, shares, calls, env>>

createShare(path, shareType, shareWith, desiredPermissions) ==
    Invoke("createShare", "getSharedWithMe", 0,
           [path |-> path, shareType |-> shareType, shareWith |-> shareWith,
            permissions |-> desiredPermissions])

RECURSIVE existingLoopFirst(_, _, _)
\* the foreach left at the first entry whose file_target is path
existingLoopFirst(array, path, existing) ==
    IF Len(array) = 0 THEN existing
    ELSE IF Head(array).file_target = JString(path)
         THEN toInt(Head(array).permissions)
         ELSE existingLoopFirst(Tail(array), path, existing)

RECURSIVE existingLoop(_, _, _)
\* the foreach of the lambda: every entry whose file_target is path overwrites
existingLoop(array, path, existing) ==
    IF Len(array) = 0 THEN existing
    ELSE existingLoop(Tail(array), path,
                      IF Head(array).file_target = JString(path)
                      THEN toInt(Head(array).permissions)
                      ELSE existing)

existingPermissions(array, path) == existingLoop(array, path, SharePermissionDefault)

\* the limit to the existing permissions left out
validPermissionsUnlimited(desiredPermissions, existing) ==
    IF desiredPermissions = SharePermissionDefault THEN existing ELSE desiredPermissions

\* the existing permissions added (|=) instead of intersected (&=)
validPermissionsAdded(desiredPermissions, existing) ==
    LET valid == IF desiredPermissions = SharePermissionDefault
                 THEN existing ELSE desiredPermissions
    IN  IF existing # SharePermissionDefault
        THEN valid + existing - BitAnd(valid, existing)
        ELSE valid

validPermissions(desiredPermissions, existing) ==
    LET valid == IF desiredPermissions = SharePermissionDefault
                 THEN existing ELSE desiredPermissions
    IN  IF existing # SharePermissionDefault THEN BitAnd(valid, existing) ELSE valid

\* the permissions limited by what the server shares now, not by the reply
createShareLambdaFresh(j, reply) ==
    /\ Pending(j, {"getSharedWithMe"})
    /\ reply \in env.probe
    /\ LET a == Job(j).arg
           valid == validPermissions(a.permissions,
                                     existingPermissions(env.server, a.path))
       IN  jobs' = [Finished(j, reply) EXCEPT
                       ![j] = Append(@, NewJob("createShare", 0,
                                               [a EXCEPT !.permissions = valid]))]
    /\ UNCHANGED <<account, folderMap, folderLog, shares, calls, emitted, env>>

\* the lambda connected to shareJobFinished of the getSharedWithMe job
createShareLambda(j, reply) ==
    /\ Pending(j, {"getSharedWithMe"})
    /\ reply \in env.probe
    /\ LET a == Job(j).arg
           valid == validPermissions(a.permissions,
                                     existingPermissions(reply.data, a.path))
       IN  jobs' = [Finished(j, reply) EXCEPT
                       ![j] = Append(@, NewJob("createShare", 0,
                                               [a EXCEPT !.permissions = valid]))]
    /\ UNCHANGED <<account, folderMap, folderLog, shares, calls, emitted, env>>

slotShareCreated(j, reply) ==
    /\ Pending(j, {"createShare"})
    /\ reply \in env.share
    /\ jobs' = Finished(j, reply)
    /\ LET share == parseShare(account, reply.data)
       IN  /\ emitted' = Emit(j,
                              <<shareCreated(share), updateFolderCalled(share.path)>>)
           /\ folderLog' = updateFolder(account.id, share.path, folderLog)
    /\ UNCHANGED <<account, folderMap, shares, calls, env>>

fetchShares(path) == Invoke("fetchShares", "getShares", 0, [path |-> path])

\* every entry parsed as a generic share
parseFetchedGeneric(acc, data) == parseShare(acc, data)

\* the body of the foreach of slotSharesFetched
parseFetched(acc, data) ==
    IF toInt(data.share_type) = TypeLink
    THEN parseLinkShare(acc, data)
    ELSE parseShare(acc, data)

\* the fetched path invalidated as after a create
slotSharesFetchedInvalidates(j, reply) ==
    /\ Pending(j, {"getShares"})
    /\ reply \in env.fetch
    /\ jobs' = Finished(j, reply)
    /\ emitted' = Emit(j,
            << sharesFetched([i \in 1..Len(reply.data) |->
                                 parseFetched(account, reply.data[i])]),
               updateFolderCalled(Job(j).arg.path) >>)
    /\ folderLog' = updateFolder(account.id, Job(j).arg.path, folderLog)
    /\ UNCHANGED <<account, folderMap, shares, calls, env>>

slotSharesFetched(j, reply) ==
    /\ Pending(j, {"getShares"})
    /\ reply \in env.fetch
    /\ jobs' = Finished(j, reply)
    /\ emitted' = Emit(j,
            << sharesFetched([i \in 1..Len(reply.data) |->
                                 parseFetched(account, reply.data[i])]) >>)
    /\ UNCHANGED <<account, folderMap, folderLog, shares, calls, env>>

ManagerRequests == {"createLinkShare", "getSharedWithMe", "createShare", "getShares"}

\* the error of the probe reported and the share created all the same
ManagerSlotOcsErrorGoesOn(j, statusCode, message) ==
    /\ Pending(j, ManagerRequests)
    /\ <<statusCode, message>> \in env.errors
    /\ jobs' = IF Job(j).request = "getSharedWithMe"
               THEN [Failed(j, statusCode, message) EXCEPT
                        ![j] = Append(@, NewJob("createShare", 0, Job(j).arg))]
               ELSE Failed(j, statusCode, message)
    /\ emitted' = Emit(j, <<serverError(statusCode, message)>>)
    /\ UNCHANGED <<account, folderMap, folderLog, shares, calls, env>>

\* ShareManager::slotOcsError
ManagerSlotOcsError(j, statusCode, message) ==
    /\ Pending(j, ManagerRequests)
    /\ <<statusCode, message>> \in env.errors
    /\ jobs' = Failed(j, statusCode, message)
    /\ emitted' = Emit(j, <<serverError(statusCode, message)>>)
    /\ UNCHANGED <<account, folderMap, folderLog, shares, calls, env>>

---------------------------------------------------------------------------
(* Share and LinkShare.  The QVariant a job hands to shareJobFinished is    *)
(* the value the request was made with.                                    *)

IsShare(e) == e \in 1..Len(shares)
IsLinkShare(e) == IsShare(e) /\ shares[e].cls = "LinkShare"

\* the request of a setter or of deleteShare: the share's id and the new value
SetterArg(e, value) == [id |-> shares[e].id, value |-> value]

setPermissions(e, permissions) ==
    /\ IsShare(e)
    /\ Invoke("setPermissions", "setPermissions", e, SetterArg(e, permissions))

\* the value of an earlier call not stored once a later call's value is
slotPermissionsSetInCallOrder(j, reply) ==
    /\ Pending(j, {"setPermissions"})
    /\ reply \in env.update
    /\ jobs' = Finished(j, reply)
    /\ shares' = IF \E d \in (j + 1)..Len(jobs) :
                        /\ Job(d).request = "setPermissions"
                        /\ Job(d).target = Job(j).target
                        /\ Job(d).state = "finished"
                 THEN shares
                 ELSE [shares EXCEPT ![Job(j).target].permissions = Job(j).arg.value]
    /\ emitted' = Emit(j, <<Plain("permissionsSet")>>)
    /\ UNCHANGED <<account, folderMap, folderLog, calls, env>>

slotPermissionsSet(j, reply) ==
    /\ Pending(j, {"setPermissions"})
    /\ reply \in env.update
    /\ jobs' = Finished(j, reply)
    /\ shares' = [shares EXCEPT ![Job(j).target].permissions = Job(j).arg.value]
    /\ emitted' = Emit(j, <<Plain("permissionsSet")>>)
    /\ UNCHANGED <<account, folderMap, folderLog, calls, env>>

deleteShare(e) ==
    /\ IsShare(e)
    /\ Invoke("deleteShare", "deleteShare", e, SetterArg(e, 0))

slotDeleted(j, reply) ==
    /\ Pending(j, {"deleteShare"})
    /\ reply \in env.update
    /\ jobs' = Finished(j, reply)
    /\ LET share == shares[Job(j).target]
       IN  /\ emitted' = Emit(j,
                              <<Plain("shareDeleted"), updateFolderCalled(share.path)>>)
           /\ folderLog' = updateFolder(share.account, share.path, folderLog)
    /\ UNCHANGED <<account, folderMap, shares, calls, env>>

ShareRequests == {"setPermissions", "deleteShare", "setName", "setExpireDate"}

\* the failed request made once more
ShareSlotOcsErrorRetries(j, statusCode, message) ==
    /\ Pending(j, ShareRequests)
    /\ <<statusCode, message>> \in env.errors
    /\ jobs' = [Failed(j, statusCode, message) EXCEPT
                   ![j] = IF Len(@) = 1
                          THEN Append(@, NewJob(Job(j).request, Job(j).target, Job(j).arg))
                          ELSE @]
    /\ emitted' = Emit(j, <<serverError(statusCode, message)>>)
    /\ UNCHANGED <<account, folderMap, folderLog, shares, calls, env>>

\* the cached entry of the share's path invalidated on an error as well
ShareSlotOcsErrorInvalidates(j, statusCode, message) ==
    /\ Pending(j, ShareRequests)
    /\ <<statusCode, message>> \in env.errors
    /\ jobs' = Failed(j, statusCode, message)
    /\ LET share == shares[Job(j).target]
       IN  /\ emitted' = Emit(j, <<serverError(statusCode, message),
                                    updateFolderCalled(share.path)>>)
           /\ folderLog' = updateFolder(share.account, share.path, folderLog)
    /\ UNCHANGED <<account, folderMap, shares, calls, env>>

\* Share::slotOcsError
ShareSlotOcsError(j, statusCode, message) ==
    /\ Pending(j, ShareRequests)
    /\ <<statusCode, message>> \in env.errors
    /\ jobs' = Failed(j, statusCode, message)
    /\ emitted' = Emit(j, <<serverError(statusCode, message)>>)
    /\ UNCHANGED <<account, folderMap, folderLog, shares, calls, env>>

setName(e, name) ==
    /\ IsLinkShare(e)
    /\ Invoke("setName", "setName", e, SetterArg(e, name))

\* the value stored into the neighbouring member _token as well
slotNameSetWritesToken(j, reply) ==
    /\ Pending(j, {"setName"})
    /\ reply \in env.update
    /\ jobs' = Finished(j, reply)
    /\ shares' = [shares EXCEPT ![Job(j).target].name = Job(j).arg.value,
                                ![Job(j).target].token = Job(j).arg.value]
    /\ emitted' = Emit(j, <<Plain("nameSet")>>)
    /\ UNCHANGED <<account, folderMap, folderLog, calls, env>>

slotNameSet(j, reply) ==
    /\ Pending(j, {"setName"})
    /\ reply \in env.update
    /\ jobs' = Finished(j, reply)
    /\ shares' = [shares EXCEPT ![Job(j).target].name = Job(j).arg.value]
    /\ emitted' = Emit(j, <<Plain("nameSet")>>)
    /\ UNCHANGED <<account, folderMap, folderLog, calls, env>>

setPassword(e, password) ==
    /\ IsLinkShare(e)
    /\ Invoke("setPassword", "setPassword", e, SetterArg(e, password))

slotPasswordSet(j, reply) ==
    /\ Pending(j, {"setPassword"})
    /\ reply \in env.update
    /\ jobs' = Finished(j, reply)
    /\ shares' = [shares EXCEPT
                    ![Job(j).target].passwordSet = (Job(j).arg.value = EmptyString)]
    /\ emitted' = Emit(j, <<Plain("passwordSet")>>)
    /\ UNCHANGED <<account, folderMap, folderLog, calls, env>>

\* the failure reported on the generic channel
slotSetPasswordErrorGeneric(j, statusCode, message) ==
    /\ Pending(j, {"setPassword"})
    /\ <<statusCode, message>> \in env.errors
    /\ jobs' = Failed(j, statusCode, message)
    /\ emitted' = Emit(j, <<serverError(statusCode, message)>>)
    /\ UNCHANGED <<account, folderMap, folderLog, shares, calls, env>>

slotSetPasswordError(j, statusCode, message) ==
    /\ Pending(j, {"setPassword"})
    /\ <<statusCode, message>> \in env.errors
    /\ jobs' = Failed(j, statusCode, message)
    /\ emitted' = Emit(j, <<passwordSetError(statusCode, message)>>)
    /\ UNCHANGED <<account, folderMap, folderLog, shares, calls, env>>

setExpireDate(e, date) ==
    /\ IsLinkShare(e)
    /\ Invoke("setExpireDate", "setExpireDate", e, SetterArg(e, date))

\* the requested date stored whatever the reply holds
expireDateOfRequest(data, value) == value

\* the date slotExpireDateSet stores
expireDateOf(data, value) ==
    IF isString(data.expiration)
    THEN dateFromString(toString(data.expiration))
    ELSE value

slotExpireDateSet(j, reply) ==
    /\ Pending(j, {"setExpireDate"})
    /\ reply \in env.expire
    /\ jobs' = Finished(j, reply)
    /\ shares' = [shares EXCEPT
                    ![Job(j).target].expireDate = expireDateOf(reply.data, Job(j).arg.value)]
    /\ emitted' = Emit(j, <<Plain("expireDateSet")>>)
    /\ UNCHANGED <<account, folderMap, folderLog, calls, env>>

---------------------------------------------------------------------------
(* Specifications *)

AccountOf(version) == [id |-> MyAccount, url |-> BaseUrl, serverVersionInt |-> version]
Accounts == { AccountOf(v) : v \in ServerVersions }

InitWith(accounts, folders, objects, answers) ==
    /\ account \in accounts
    /\ folderMap = folders
    /\ folderLog = [a \in DOMAIN folders |-> <<>>]
    /\ shares = objects
    /\ calls = <<>>
    /\ jobs = <<>>
    /\ emitted = <<>>
    /\ env = answers

Init == InitWith({AccountOf(makeServerVersion(8, 0, 0))}, Folders, InitialShares, FullEnv)

\* the calls, each of which has at most one job in flight
JobIds == 1..Len(jobs)

Callers ==
    \/ createLinkShare(PathAB, Name1, EmptyString)
    \/ \E desired \in env.desired : createShare(PathAB, TypeUser, Bob, desired)
    \/ fetchShares(PathAB)
    \/ \E e \in 1..Len(shares), p \in env.permissions : setPermissions(e, p)
    \/ \E e \in 1..Len(shares) : deleteShare(e)
    \/ \E e \in 1..Len(shares), name \in env.names : setName(e, name)
    \/ \E e \in 1..Len(shares), password \in env.passwords : setPassword(e, password)
    \/ \E e \in 1..Len(shares), date \in env.dates : setExpireDate(e, date)

\* the callback of a job fires: shareJobFinished or ocsError
Callbacks ==
    \/ \E j \in JobIds, reply \in env.link : slotLinkShareCreated(j, reply)
    \/ \E j \in JobIds, reply \in env.probe : createShareLambda(j, reply)
    \/ \E j \in JobIds, reply \in env.share : slotShareCreated(j, reply)
    \/ \E j \in JobIds, reply \in env.fetch : slotSharesFetched(j, reply)
    \/ \E j \in JobIds, error \in env.errors :
          ManagerSlotOcsError(j, error[1], error[2])
    \/ \E j \in JobIds, reply \in env.update : slotPermissionsSet(j, reply)
    \/ \E j \in JobIds, reply \in env.update : slotDeleted(j, reply)
    \/ \E j \in JobIds, error \in env.errors : ShareSlotOcsError(j, error[1], error[2])
    \/ \E j \in JobIds, reply \in env.update : slotNameSet(j, reply)
    \/ \E j \in JobIds, reply \in env.update : slotPasswordSet(j, reply)
    \/ \E j \in JobIds, error \in env.errors :
          slotSetPasswordError(j, error[1], error[2])
    \/ \E j \in JobIds, reply \in env.expire : slotExpireDateSet(j, reply)

Next == Callers \/ Callbacks

Spec == Init /\ [][Next]_vars

\* every issued request's callback fires
LiveInit == InitWith({AccountOf(makeServerVersion(8, 0, 0))}, Folders, InitialShares, SmallEnv)
LiveSpec == LiveInit /\ [][Next]_vars /\ WF_vars(Callbacks)

---------------------------------------------------------------------------
(* Link shares parsed for accounts of several server versions *)

\* data of link shares: with a url, with a token only, with neither
UrlPayloads ==
    LinkPayloads \cup
    { [EmptyObject EXCEPT !.id = JInt(43), !.path = JString(PathAB),
          !.share_type = JInt(TypeLink)],
      [EmptyObject EXCEPT !.id = JInt(44), !.path = JString(PathAB),
          !.share_type = JInt(TypeLink), !.url = JString(Url)] }

UrlFetchArrays ==
    { << [EmptyObject EXCEPT !.id = JInt(1), !.path = JString(PathAB),
             !.share_type = JInt(TypeLink), !.token = JString(Token)],
         [EmptyObject EXCEPT !.id = JInt(2), !.path = JString(PathAB),
             !.share_type = JInt(TypeLink), !.token = JString(Token),
             !.url = JString(Url)] >> }

UrlEnv ==
    [SmallEnv EXCEPT
        !.link = { Reply(100, "OK", d) : d \in UrlPayloads },
        !.fetch = { Reply(100, "OK", a) : a \in UrlFetchArrays }]

UrlInit == InitWith(Accounts, Folders, InitialShares, UrlEnv)

UrlNext ==
    \/ createLinkShare(PathAB, Name1, EmptyString)
    \/ fetchShares(PathAB)
    \/ \E j \in JobIds, reply \in env.link : slotLinkShareCreated(j, reply)
    \/ \E j \in JobIds, reply \in env.fetch : slotSharesFetched(j, reply)

UrlSpec == UrlInit /\ [][UrlNext]_vars

---------------------------------------------------------------------------
(* createShare against a server whose shared-with-me set changes.  The     *)
(* server produces the reply to getSharedWithMe from the set it holds at    *)
(* that moment; the reply reaches the lambda in a later step.               *)

\* the shared-with-me sets the server may hold
RaceArrays ==
    { <<>>,
      << Entry(JString(PathAB), JInt(ReadUpdate)) >>,
      << Entry(JString(PathAB), JInt(SharePermissionRead)) >> }

\* server: the set held now; stale: the calls whose probe reply was
\* produced from a set that changed before the reply was delivered
RaceEnv ==
    [SmallEnv EXCEPT
        !.desired = DesiredPermissions,
        !.probe = { Reply(100, "OK", a) : a \in RaceArrays }]
    @@ [server |-> << Entry(JString(PathAB), JInt(ReadUpdate)) >>, stale |-> {}]

\* the probes whose reply is produced and not delivered yet
Answered == { c \in JobIds : Pending(c, {"getSharedWithMe"}) /\ Job(c).reply # NoReply }

serverAnswersProbe(j) ==
    /\ Pending(j, {"getSharedWithMe"})
    /\ Job(j).reply = NoReply
    /\ jobs' = [jobs EXCEPT ![j][Len(jobs[j])].reply = Reply(100, "OK", env.server)]
    /\ UNCHANGED <<account, folderMap, folderLog, shares, calls, emitted, env>>

serverChanges(array) ==
    /\ array # env.server
    /\ env' = [env EXCEPT !.server = array, !.stale = @ \cup Answered]
    /\ UNCHANGED <<account, folderMap, folderLog, shares, calls, jobs, emitted>>

RaceInit == InitWith({AccountOf(makeServerVersion(8, 0, 0))}, Folders, InitialShares, RaceEnv)

RaceNext ==
    \/ \E desired \in env.desired : createShare(PathAB, TypeUser, Bob, desired)
    \/ \E j \in JobIds : serverAnswersProbe(j)
    \/ \E array \in RaceArrays : serverChanges(array)
    \/ \E j \in Answered : createShareLambda(j, Job(j).reply)
    \/ \E j \in JobIds, reply \in env.share : slotShareCreated(j, reply)
    \/ \E j \in JobIds, error \in env.errors :
          ManagerSlotOcsError(j, error[1], error[2])

RaceSpec == RaceInit /\ [][RaceNext]_vars

---------------------------------------------------------------------------
(* createShare on probe replies with several entries for the path *)

\* data of replies to getSharedWithMe: the path listed up to three times,
\* with and without permissions, next to another path
ReadCreate == SharePermissionRead + SharePermissionCreate

MultiProbeArrays ==
    { << Entry(JString(PathAB), JInt(ReadUpdate)),
         Entry(JString(PathAB), JUndefined) >>,
      << Entry(JString(PathAB), JUndefined),
         Entry(JString(PathAB), JInt(ReadUpdate)) >>,
      << Entry(JString(PathAB), JInt(ReadCreate)),
         Entry(JString(PathAB), JInt(ReadUpdate)) >>,
      << Entry(JString(PathAB), JInt(ReadUpdate)),
         Entry(JString(PathAB), JInt(ReadCreate)) >>,
      << Entry(JString(PathAB), JInt(ReadUpdate)),
         Entry(JString(PathABC), JInt(AllPermissions)) >>,
      << Entry(JString(PathAB), JInt(ReadUpdate)),
         Entry(JString(PathAB), JUndefined),
         Entry(JString(PathAB), JInt(ReadCreate)) >> }

ProbeEnv ==
    [SmallEnv EXCEPT
        !.desired = DesiredPermissions,
        !.probe = { Reply(100, "OK", a) : a \in MultiProbeArrays }]

ProbeInit == InitWith({AccountOf(makeServerVersion(8, 0, 0))}, Folders, InitialShares, ProbeEnv)

ProbeNext ==
    \/ \E desired \in env.desired : createShare(PathAB, TypeUser, Bob, desired)
    \/ \E j \in JobIds, reply \in env.probe : createShareLambda(j, reply)
    \/ \E j \in JobIds, reply \in env.share : slotShareCreated(j, reply)
    \/ \E j \in JobIds, error \in env.errors :
          ManagerSlotOcsError(j, error[1], error[2])

ProbeSpec == ProbeInit /\ [][ProbeNext]_vars

---------------------------------------------------------------------------
(* updateFolder on generated paths: one share whose path is any generated  *)
(* path is deleted, with a sync folder of each account on any generated    *)
(* remote path.                                                            *)

PathChars == {"/", "a", "b"}

GenPaths ==
    UNION { [1..n -> PathChars] : n \in 0..MaxPathLen }
        \cup { PathAB, PathABC, PathABc, PathA, PathFoo, PathFoo2 }

PathFolders(r) ==
    [f1 |-> [account |-> MyAccount, remotePath |-> r],
     f2 |-> [account |-> OtherAccount, remotePath |-> r]]

PathInit ==
    \E r \in GenPaths, p \in GenPaths :
        InitWith({AccountOf(makeServerVersion(8, 0, 0))}, PathFolders(r),
                 << Share(MyAccount, <<"5">>, p, TypeUser, AllPermissions,
                          Sharee(Bob, Bob, TypeUser)) >>,
                 SmallEnv)

PathNext ==
    \/ \E e \in 1..Len(shares) : deleteShare(e)
    \/ \E j \in JobIds, reply \in env.update : slotDeleted(j, reply)

PathSpec == PathInit /\ [][PathNext]_vars

---------------------------------------------------------------------------
(* Properties *)

CallIds == 1..Len(calls)

Sigs(c) == { emitted[c][i].sig : i \in 1..Len(emitted[c]) }

CountSig(c, sigs) == Cardinality({ i \in 1..Len(emitted[c]) : emitted[c][i].sig \in sigs })

\* the calls of createShare whose create-share request has been issued
CreateIssued == { c \in CallIds : calls[c].op = "createShare" /\ Len(jobs[c]) >= 2 }

\* the entries of a probe reply whose target path is path
Hits(array, path) ==
    { i \in 1..Len(array) :
        isString(array[i].file_target) /\ toString(array[i].file_target) = path }

\* E: the permissions of the (last) entry whose target path is path, or Default
ReportedPermissions(array, path) ==
    IF Hits(array, path) = {} THEN SharePermissionDefault
    ELSE LET last == CHOOSE i \in Hits(array, path) : \A k \in Hits(array, path) : k <= i
         IN  toInt(array[last].permissions)

\* C1: the permissions P of the create-share request of a createShare whose
\* probe succeeded: with E the permissions of the probe entry for the path
\* (Default if none), P = E if desired is Default, P = desired if E is Default,
\* and P = desired AND E otherwise.
C1_RequestedPermissions ==
    \A c \in CreateIssued :
        LET desired == calls[c].arg.permissions
            E == ReportedPermissions(jobs[c][1].reply.data, calls[c].arg.path)
            P == jobs[c][2].arg.permissions
        IN  /\ jobs[c][2].request = "createShare"
            /\ desired = SharePermissionDefault => P = E
            /\ desired # SharePermissionDefault /\ E = SharePermissionDefault
                  => P = desired
            /\ desired # SharePermissionDefault /\ E # SharePermissionDefault
                  => P = BitAnd(desired, E)

\* the spec's example: desired Read|Create|Delete, existing Read|Update, requested Read
C1_Witness ==
    \E c \in CreateIssued :
        /\ calls[c].arg.permissions = ReadCreateDelete
        /\ ReportedPermissions(jobs[c][1].reply.data, calls[c].arg.path) = ReadUpdate
        /\ jobs[c][2].arg.permissions = SharePermissionRead

\* C2: no privilege escalation on a re-share: when the probe reported the
\* path as shared with permissions E, every bit of the create-share request's
\* permissions is a bit of E, whatever the desired permissions.
C2_NoEscalation ==
    \A c \in CreateIssued :
        LET array == jobs[c][1].reply.data
            path == calls[c].arg.path
        IN  Hits(array, path) # {}
                => SubMask(jobs[c][2].arg.permissions, ReportedPermissions(array, path))

\* a re-share with Default desired permissions of a path shared with Read|Share
C2_Witness ==
    \E c \in CreateIssued :
        /\ calls[c].arg.permissions = SharePermissionDefault
        /\ Cardinality(Hits(jobs[c][1].reply.data, calls[c].arg.path)) = 2
        /\ jobs[c][2].arg.permissions = ReadShare

\* C3: createShare is two-phase: its create-share request is issued only
\* after its shared-with-me request finished successfully, and at most once;
\* if the shared-with-me request ends with an error, serverError(code, message)
\* is emitted, no create-share request is issued, and neither shareCreated nor
\* an invalidation occurs.
C3_TwoPhase ==
    \A c \in CallIds :
        calls[c].op = "createShare" =>
            /\ jobs[c][1].request = "getSharedWithMe"
            /\ Len(jobs[c]) <= 2
            /\ Len(jobs[c]) = 2 =>
                  /\ jobs[c][1].state = "finished"
                  /\ jobs[c][2].request = "createShare"
            /\ jobs[c][1].state = "pending" => emitted[c] = <<>>
            /\ jobs[c][1].state = "error" =>
                  /\ Len(jobs[c]) = 1
                  /\ emitted[c] = << serverError(jobs[c][1].reply.code,
                                                 jobs[c][1].reply.message) >>

\* a createShare whose probe failed
C3_Witness ==
    \E c \in CallIds :
        /\ calls[c].op = "createShare"
        /\ jobs[c][1].state = "error"
        /\ "serverError" \in Sigs(c)

\* the calls of createLinkShare whose request completed with status 403, in
\* the reply's meta status or through ocsError
Completed403 ==
    { c \in CallIds :
        /\ calls[c].op = "createLinkShare"
        /\ Job(c).state \in {"finished", "error"}
        /\ Job(c).reply.code = StatusForbidden }

\* C4: a createLinkShare request that completes with status 403 and message
\* m emits linkShareRequiresPassword(m) and nothing else (no linkShareCreated,
\* no serverError, no entity, no invalidation), however the 403 is reported.
C4_PasswordRequired ==
    \A c \in Completed403 :
        emitted[c] = << linkShareRequiresPassword(Job(c).reply.message) >>

\* the calls whose completion is a successful create or delete
Invalidating ==
    { c \in CallIds :
        /\ Job(c).state = "finished"
        /\ \/ Job(c).request \in {"createShare", "deleteShare"}
           \/ Job(c).request = "createLinkShare" /\ Job(c).reply.code # StatusForbidden }

SuccessSig(request) ==
    CASE request = "createLinkShare" -> "linkShareCreated"
      [] request = "createShare" -> "shareCreated"
      [] request = "getShares" -> "sharesFetched"
      [] request = "setPermissions" -> "permissionsSet"
      [] request = "deleteShare" -> "shareDeleted"
      [] request = "setName" -> "nameSet"
      [] request = "setPassword" -> "passwordSet"
      [] request = "setExpireDate" -> "expireDateSet"
      [] OTHER -> "none"

\* the path of the share a create or delete is about
ConcernedPath(c) ==
    IF Job(c).request = "deleteShare"
    THEN shares[Job(c).target].path
    ELSE toString(Job(c).reply.data.path)

\* C5: each successful completion of createLinkShare (not 403), of the second
\* phase of createShare and of deleteShare triggers the invalidation exactly
\* once, after the success event, with the path of the share concerned; no
\* other completion triggers it.
C5_Invalidation ==
    \A c \in CallIds :
        IF c \in Invalidating
        THEN /\ Len(emitted[c]) = 2
             /\ emitted[c][1].sig = SuccessSig(Job(c).request)
             /\ emitted[c][2] = updateFolderCalled(ConcernedPath(c))
        ELSE "updateFolder" \notin Sigs(c)

\* a deleteShare that succeeded, next to a fetch that succeeded
C5_Witness ==
    \E c, d \in CallIds :
        /\ calls[c].op = "deleteShare" /\ c \in Invalidating
        /\ calls[d].op = "fetchShares" /\ Job(d).state = "finished"

\* the jobs that completed with an error
Errors == { <<c, k>> \in CallIds \X (1..2) : k <= Len(jobs[c]) /\ jobs[c][k].state = "error" }

\* C8 as stated: every non-success completion with (code, message), of any
\* operation, emits serverError(code, message), and no further request is
\* issued for the operation.
C8_EveryErrorIsServerError ==
    \A e \in Errors :
        LET c == e[1]
            job == jobs[c][e[2]]
        IN  /\ e[2] = Len(jobs[c])
            /\ emitted[c] = << serverError(job.reply.code, job.reply.message) >>

\* C8 amended: as stated, but a failed setPassword emits
\* passwordSetError(code, message) instead of serverError.
C8_ErrorEvents ==
    \A e \in Errors :
        LET c == e[1]
            job == jobs[c][e[2]]
        IN  /\ e[2] = Len(jobs[c])
            /\ emitted[c] =
                  << IF job.request = "setPassword"
                     THEN passwordSetError(job.reply.code, job.reply.message)
                     ELSE serverError(job.reply.code, job.reply.message) >>

\* a createShare whose second request failed, and a failed setName
C8_Witness ==
    /\ \E e \in Errors : jobs[e[1]][e[2]].request = "createShare"
    /\ \E e \in Errors : jobs[e[1]][e[2]].request = "setName"

\* C9: a failed setPassword with (code, message) emits
\* passwordSetError(code, message) and neither serverError nor passwordSet;
\* no other operation ever emits passwordSetError.
C9_PasswordErrorChannel ==
    \A c \in CallIds :
        /\ calls[c].op = "setPassword" /\ Job(c).state = "error"
              => emitted[c] = << passwordSetError(Job(c).reply.code, Job(c).reply.message) >>
        /\ calls[c].op # "setPassword" => "passwordSetError" \notin Sigs(c)

\* a failed setPassword next to a failed deleteShare
C9_Witness ==
    \E c, d \in CallIds :
        /\ calls[c].op = "setPassword" /\ Job(c).state = "error"
        /\ calls[d].op = "deleteShare" /\ Job(d).state = "error"

\* the claimed match of a sync root's remote path r with a target path p
ClaimedMatch(p, r) ==
    \/ p = r
    \/ /\ Len(r) < Len(p)
       /\ \A i \in 1..Len(r) : p[i] = r[i]
       /\ \/ (Len(r) > 0 /\ r[Len(r)] = "/")
          \/ p[Len(r) + 1] = "/"

\* the number of invalidations triggered so far
Invalidations == Cardinality({ c \in CallIds : "updateFolder" \in Sigs(c) })

\* C6: a sync root with remote path r is notified of an invalidation of path
\* p iff p = r or r is a proper prefix of p ending at a '/' boundary of p;
\* root /a/b matches /a/b and /a/b/c, not /a/bc nor /a; root /foo does not
\* match /foo2.
C6_PathMatching ==
    LET r == folderMap.f1.remotePath
        p == shares[1].path
        notified == folderLog.f1 # <<>>
    IN  Invalidations > 0 =>
            /\ notified <=> ClaimedMatch(p, r)
            /\ r = PathAB /\ p \in {PathAB, PathABC} => notified
            /\ r = PathAB /\ p \in {PathABc, PathA} => ~notified
            /\ r = PathFoo /\ p = PathFoo2 => ~notified

\* root /a/b notified of an invalidation of /a/b/c
C6_Witness ==
    /\ Invalidations > 0
    /\ folderMap.f1.remotePath = PathAB
    /\ shares[1].path = PathABC
    /\ folderLog.f1 # <<>>

\* the paths whose invalidation this step triggers
NewInvalidations ==
    { pi \in UNION { {c} \X (1..Len(emitted'[c])) : c \in DOMAIN emitted } :
        /\ pi[2] > Len(emitted[pi[1]])
        /\ emitted'[pi[1]][pi[2]].sig = "updateFolder" }

\* the claimed relative path: r removed from the front of p, then at most
\* one leading '/' removed
ClaimedRelative(p, r) ==
    LET rest == [i \in 1..(Len(p) - Len(r)) |-> p[Len(r) + i]]
    IN  IF Len(rest) > 0 /\ rest[1] = "/"
        THEN [i \in 1..(Len(rest) - 1) |-> rest[i + 1]]
        ELSE rest

\* the calls the claim gives folder a for an invalidation of (acc, p)
ClaimedCalls(a, acc, p) ==
    IF folderMap[a].account = acc /\ ClaimedMatch(p, folderMap[a].remotePath)
    THEN << [op |-> "avoidReadFromDbOnNextSync",
             arg |-> ClaimedRelative(p, folderMap[a].remotePath)],
            [op |-> "scheduleThisFolderSoon", arg |-> EmptyString] >>
    ELSE <<>>

\* C7: one invalidation of (account, path) gives every matching sync root of
\* the account exactly one invalidateCachedEntry(rel), then exactly one
\* scheduleExpeditedSync, rel being path without the root's remote path and
\* without at most one leading '/'; every other root receives no call and
\* stays as it is.  A step without invalidation calls no folder.
C7_FolderCalls ==
    [][ /\ folderMap' = folderMap
        /\ Cardinality(NewInvalidations) <= 1
        /\ \A a \in DOMAIN folderMap :
              IF NewInvalidations = {}
              THEN folderLog'[a] = folderLog[a]
              ELSE \A pi \in NewInvalidations :
                      folderLog'[a] = folderLog[a]
                          \o ClaimedCalls(a, MyAccount, emitted'[pi[1]][pi[2]].path)
      ]_vars

\* root /a/b told to avoid "c" for path /a/b/c, the other account's root on
\* the same remote path told nothing
C7_Witness ==
    /\ folderMap.f1.remotePath = PathAB
    /\ folderLog.f1 = << [op |-> "avoidReadFromDbOnNextSync", arg |-> <<"c">>],
                         [op |-> "scheduleThisFolderSoon", arg |-> EmptyString] >>
    /\ folderLog.f2 = <<>>

TerminalSigs ==
    { "linkShareCreated", "shareCreated", "sharesFetched", "permissionsSet",
      "shareDeleted", "nameSet", "passwordSet", "expireDateSet",
      "linkShareRequiresPassword", "serverError", "passwordSetError" }

Terminals(c) == CountSig(c, TerminalSigs)

\* C10: with every request's callback firing exactly once, every invocation
\* of a public operation eventually has exactly one terminal event (its
\* success event, linkShareRequiresPassword or an error event), never two,
\* whatever else is in flight.
C10_OneTerminalEvent ==
    /\ [](\A c \in CallIds : Terminals(c) <= 1)
    /\ \A c \in 1..MaxCalls :
          (c \in CallIds) ~> (c \in CallIds /\ Terminals(c) = 1 /\ Job(c).state # "pending")

\* two identical fetches, one answered with the shares and one with an error
C10_Witness ==
    \E c, d \in CallIds :
        /\ calls[c] = calls[d] /\ calls[c].op = "fetchShares"
        /\ "sharesFetched" \in Sigs(c) /\ Terminals(c) = 1
        /\ "serverError" \in Sigs(d) /\ Terminals(d) = 1

---------------------------------------------------------------------------
(* Frame of the mutators *)

\* the calls whose job completes successfully in this step
Succeeding ==
    { c \in CallIds :
        /\ Job(c).state = "pending"
        /\ jobs'[c][Len(jobs[c])].state = "finished" }

\* the field the success completion of a request may write
WrittenField(request) ==
    CASE request = "setPermissions" -> "permissions"
      [] request = "setName" -> "name"
      [] request = "setPassword" -> "passwordSet"
      [] request = "setExpireDate" -> "expireDate"
      [] OTHER -> "none"

ShareFields == DOMAIN InitialShares[1]

ImmutableFields == {"id", "path", "shareType", "shareWith", "token", "url"}

\* C11: disjoint writers: a step changes a field of an entity only if it is
\* the success completion of the mutator of that field on that entity
\* (setPermissions: permissions, setName: name, setPassword: passwordSet,
\* setExpireDate: expireDate, deleteShare: none); id, path, shareType,
\* shareWith, token and url always equal the values of construction.
C11_DisjointWriters ==
    /\ [][ \A e \in 1..Len(shares) : \A f \in ShareFields :
              shares'[e][f] # shares[e][f] =>
                  \E c \in Succeeding :
                      /\ Job(c).target = e
                      /\ WrittenField(Job(c).request) = f ]_vars
    /\ [](\A e \in 1..Len(shares) : \A f \in ImmutableFields :
              shares[e][f] = InitialShares[e][f])

\* a setName and a setPermissions on the link share both succeeded
C11_Witness ==
    \E c, d \in CallIds :
        /\ calls[c].op = "setName" /\ Job(c).state = "finished" /\ Job(c).target = 2
        /\ calls[d].op = "setPermissions" /\ Job(d).state = "finished"
        /\ Job(d).target = 2
        /\ shares[2].name = Name2 /\ shares[2].permissions = ReadUpdate

---------------------------------------------------------------------------
(* Fetching *)

\* the calls of fetchShares that completed successfully
Fetched == { c \in CallIds : calls[c].op = "fetchShares" /\ Job(c).state = "finished" }

\* C12: a successful fetchShares on a reply whose data array has n entries
\* emits one sharesFetched with a list of n entities in the array's order;
\* element i is a LinkShare of share type Link, as the link-share parser
\* builds it, iff entry i's share_type is Link, and otherwise a generic Share
\* with the entry's share type.
C12_FetchedList ==
    \A c \in Fetched :
        LET array == Job(c).reply.data
        IN  /\ Len(emitted[c]) = 1
            /\ emitted[c][1].sig = "sharesFetched"
            /\ Len(emitted[c][1].shares) = Len(array)
            /\ \A i \in 1..Len(array) :
                  LET e == emitted[c][1].shares[i]
                      isLink == array[i].share_type = JInt(TypeLink)
                  IN  /\ e.id = variantToString(array[i].id)
                      /\ e.cls = "LinkShare" <=> isLink
                      /\ isLink => e.shareType = TypeLink /\ e.token = toString(array[i].token)
                                   /\ e = parseLinkShare(account, array[i])
                      /\ ~isLink => e.cls = "Share" /\ e.shareType = toInt(array[i].share_type)
                                    /\ e.shareWith.shareWith = toString(array[i].share_with)

\* the spec's example: a Link entry then a User entry give a LinkShare then a Share
C12_Witness ==
    \E c \in Fetched :
        LET list == emitted[c][1].shares
        IN  /\ Len(list) = 2
            /\ list[1].cls = "LinkShare" /\ list[1].id = <<"1">>
            /\ list[2].cls = "Share" /\ list[2].id = <<"2">> /\ list[2].shareType = TypeUser

---------------------------------------------------------------------------
(* Parsing *)

\* the entities delivered by shareCreated, linkShareCreated or sharesFetched
Delivered ==
    UNION { { emitted[c][i].shares[k] : k \in 1..Len(emitted[c][i].shares) } :
              <<c, i>> \in { ci \in CallIds \X (1..2) : ci[2] <= Len(emitted[ci[1]]) } }

\* the successful creates whose data object has the id and the path
WellFormedCreates ==
    { c \in CallIds :
        /\ Job(c).state = "finished"
        /\ \/ Job(c).request = "createShare"
           \/ Job(c).request = "createLinkShare" /\ Job(c).reply.code # StatusForbidden
        /\ contains(Job(c).reply.data.id) /\ contains(Job(c).reply.data.path) }

\* C13: a data object without id or path is a parse failure: no entity with
\* an empty id or an empty path is delivered by shareCreated, linkShareCreated
\* or sharesFetched; a data object with id and path whose optional fields
\* are absent yields an entity with these fields empty or unset.
C13_ParseFailure ==
    /\ \A e \in Delivered : e.id # EmptyString /\ e.path # EmptyString
    /\ \A c \in WellFormedCreates :
          LET data == Job(c).reply.data
              e == emitted[c][1].shares[1]
          IN  /\ ~contains(data.name) => e.name = EmptyString
              /\ ~contains(data.permissions) => e.permissions = 0
              /\ ~contains(data.expiration) => e.expireDate = NullDate
              /\ ~contains(data.share_with) /\ e.cls = "LinkShare" => ~e.passwordSet

---------------------------------------------------------------------------
(* Link URL *)

\* the pairs of a payload and the LinkShare parsed from it
ParsedLinks ==
    { <<Job(c).reply.data, emitted[c][1].shares[1]>> :
        c \in { d \in CallIds : "linkShareCreated" \in Sigs(d) } }
    \cup
    UNION { { <<Job(c).reply.data[i], emitted[c][1].shares[i]>> :
                i \in { k \in 1..Len(Job(c).reply.data) :
                           emitted[c][1].shares[k].cls = "LinkShare" } } :
              c \in Fetched }

ClaimedModernPrefix == <<"i", "n", "d", "e", "x", ".", "p", "h", "p", "/", "s", "/">>
ClaimedLegacyPrefix == <<"p", "u", "b", "l", "i", "c", ".", "p", "h", "p", "?", "s", "e", "r", "v", "i", "c", "e", "=", "f", "i", "l", "e", "s", "&", "t", "=">>

\* C14: the url of a parsed LinkShare is the payload's url field verbatim if
\* the payload has one, whatever the server version; else, for a server
\* version >= 8.0.0, base + "index.php/s/" + token; else
\* base + "public.php?service=files&t=" + token.
C14_UrlPriority ==
    \A pl \in ParsedLinks :
        LET data == pl[1]
            url == pl[2].url
            token == pl[2].token
        IN  IF data.url # JUndefined
            THEN url = data.url.s
            ELSE IF account.serverVersionInt >= 8 * 65536
                 THEN url = account.url \o ClaimedModernPrefix \o token
                 ELSE url = account.url \o ClaimedLegacyPrefix \o token

\* a payload with a url parsed for a server of version 8 or later
C14_Witness ==
    \E pl \in ParsedLinks :
        /\ pl[1].url = JString(Url) /\ pl[1].token = JString(Token)
        /\ account.serverVersionInt = makeServerVersion(9, 1, 0)
        /\ pl[2].url = Url

\* a payload without url parsed for a server older than 8.0.0
C14_WitnessLegacy ==
    \E pl \in ParsedLinks :
        /\ pl[1].url = JUndefined /\ pl[1].token = JString(Token)
        /\ account.serverVersionInt = makeServerVersion(7, 255, 255)
        /\ pl[2].url = BaseUrl \o ClaimedLegacyPrefix \o Token

---------------------------------------------------------------------------
(* The window between the probe and the create request *)

\* C15: createShare is not atomic: when the server's shared-with-me set
\* changed after the probe reply was produced and before the create-share
\* request was issued, the request is issued all the same, with the
\* permissions computed from the reply's snapshot, by the one probe and the
\* one create-share request of the call (no re-probe, no retry).
C15_StaleSnapshot ==
    \A c \in CreateIssued :
        c \in env.stale =>
            LET desired == calls[c].arg.permissions
                E == ReportedPermissions(jobs[c][1].reply.data, calls[c].arg.path)
            IN  /\ Len(jobs[c]) = 2
                /\ jobs[c][1].request = "getSharedWithMe"
                /\ jobs[c][2].request = "createShare"
                /\ jobs[c][2].arg.permissions =
                      IF desired = SharePermissionDefault THEN E
                      ELSE IF E = SharePermissionDefault THEN desired
                      ELSE BitAnd(desired, E)

\* the probe answered Read|Update, the server then restricted the path to
\* Read, and the create-share request asks for Read|Update
C15_Witness ==
    \E c \in CreateIssued :
        /\ c \in env.stale
        /\ calls[c].arg.permissions = SharePermissionDefault
        /\ jobs[c][1].reply.data = << Entry(JString(PathAB), JInt(ReadUpdate)) >>
        /\ env.server = << Entry(JString(PathAB), JInt(SharePermissionRead)) >>
        /\ jobs[c][2].state = "pending"
        /\ jobs[c][2].arg.permissions = ReadUpdate

---------------------------------------------------------------------------
(* Mutations of the same field in flight together *)

RacingFields == {"name", "permissions"}

\* C16: last writer wins: each success completion of a setName or a
\* setPermissions stores the value delivered with it, whatever other
\* mutation of the field is in flight or has completed and whatever the
\* order of the invocations, and emits its own set event; nothing else
\* changes the field, so the final value is the one that arrived last.
C16_LastWriterWins ==
    [][ /\ \A c \in Succeeding :
              WrittenField(Job(c).request) \in RacingFields =>
                  /\ shares'[Job(c).target][WrittenField(Job(c).request)]
                        = Job(c).arg.value
                  /\ emitted[c] = <<>>
                  /\ emitted'[c] = << Plain(SuccessSig(Job(c).request)) >>
        /\ \A e \in 1..Len(shares) : \A f \in RacingFields :
              shares'[e][f] # shares[e][f] =>
                  \E c \in Succeeding :
                      Job(c).target = e /\ WrittenField(Job(c).request) = f
      ]_vars

\* two setPermissions of the same share with different values both
\* succeeded, each with its permissionsSet, and the share holds the value of
\* the one invoked first: its response arrived last
C16_Witness ==
    \E c, d \in CallIds :
        /\ c < d
        /\ calls[c].op = "setPermissions" /\ calls[d].op = "setPermissions"
        /\ calls[c].target = calls[d].target
        /\ calls[c].arg.value # calls[d].arg.value
        /\ Job(c).state = "finished" /\ Job(d).state = "finished"
        /\ emitted[c] = << Plain("permissionsSet") >>
        /\ emitted[d] = << Plain("permissionsSet") >>
        /\ shares[calls[c].target].permissions = calls[c].arg.value

---------------------------------------------------------------------------
(* Password *)

\* C17: after a successful setPassword(p) on a LinkShare, isPasswordSet() is
\* true if p is a non-empty password and false if p is the empty string,
\* and passwordSet is emitted exactly once.
C17_PasswordSet ==
    [][ \A c \in Succeeding :
            Job(c).request = "setPassword" =>
                /\ shares'[Job(c).target].passwordSet = (Job(c).arg.value # EmptyString)
                /\ emitted'[c] = << Plain("passwordSet") >>
      ]_vars

---------------------------------------------------------------------------
(* Errors of the mutators *)

MutatorRequests ==
    {"setPermissions", "setName", "setPassword", "setExpireDate", "deleteShare"}

\* the calls whose job completes with an error in this step
Failing ==
    { c \in CallIds :
        /\ Job(c).state = "pending"
        /\ jobs'[c][Len(jobs[c])].state = "error" }

\* the mutators that completed with an error
FailedMutators ==
    { c \in CallIds : Job(c).request \in MutatorRequests /\ Job(c).state = "error" }

SetSigs ==
    {"permissionsSet", "nameSet", "passwordSet", "expireDateSet", "shareDeleted"}

\* C18: the error completion of a mutator request leaves every field of
\* every entity as it was, emits no set or deleted event, triggers no
\* invalidation and leaves the other operations' jobs in flight; a mutator
\* that completes successfully after another one failed still emits its own
\* event.
C18_ErrorFrame ==
    [][ /\ \A c \in Failing :
              Job(c).request \in MutatorRequests =>
                  /\ shares' = shares
                  /\ folderLog' = folderLog
                  /\ \A i \in 1..Len(emitted'[c]) :
                        emitted'[c][i].sig \notin SetSigs \cup {"updateFolder"}
                  /\ \A d \in CallIds \ {c} :
                        jobs'[d] = jobs[d] /\ emitted'[d] = emitted[d]
        /\ \A d \in Succeeding :
              Job(d).request \in MutatorRequests /\ FailedMutators # {} =>
                  /\ emitted[d] = <<>>
                  /\ emitted'[d][1] = Plain(SuccessSig(Job(d).request))
      ]_vars

\* a setName of the link share failed and a setPermissions of the same share
\* succeeded: the name is the one of construction, the permissions are new
C18_Witness ==
    \E c, d \in CallIds :
        /\ calls[c].op = "setName" /\ Job(c).state = "error" /\ Job(c).target = 2
        /\ calls[c].arg.value # InitialShares[2].name
        /\ calls[d].op = "setPermissions" /\ Job(d).state = "finished"
        /\ Job(d).target = 2
        /\ shares[2] = [InitialShares[2] EXCEPT !.permissions = ReadUpdate]
        /\ "permissionsSet" \in Sigs(d) /\ Sigs(c) = {"serverError"}

---------------------------------------------------------------------------
(* Several probe entries for the path *)

\* C19: when several entries of the probe reply have the target path, the
\* existing permissions are those of the last such entry in list order, an
\* absent permissions field counting as 0; the create-share request then
\* carries them ANDed with the desired permissions, hence 0 when the last
\* entry has no permissions and the desired permissions are not Default.
C19_LastEntryWins ==
    \A c \in CreateIssued :
        LET array == jobs[c][1].reply.data
            hits == Hits(array, calls[c].arg.path)
            desired == calls[c].arg.permissions
            P == jobs[c][2].arg.permissions
        IN  hits # {} =>
                LET last == CHOOSE i \in hits : \A k \in hits : k <= i
                    contributed == IF array[last].permissions.t = "int"
                                   THEN array[last].permissions.i
                                   ELSE 0
                IN  /\ desired = SharePermissionDefault => P = contributed
                    /\ desired # SharePermissionDefault => P = BitAnd(desired, contributed)
                    /\ desired # SharePermissionDefault
                          /\ array[last].permissions = JUndefined => P = 0

\* the path listed with Read|Update and then without permissions: the
\* request for Read|Create|Delete carries 0
C19_Witness ==
    \E c \in CreateIssued :
        /\ jobs[c][1].reply.data = << Entry(JString(PathAB), JInt(ReadUpdate)),
                                      Entry(JString(PathAB), JUndefined) >>
        /\ calls[c].arg.permissions = ReadCreateDelete
        /\ jobs[c][2].arg.permissions = 0

---------------------------------------------------------------------------
(* Expiration date *)

\* C20: the success completion of setExpireDate(d) stores the date parsed
\* from the reply's data.expiration when that field is a string (the null
\* date when the string does not fit "yyyy-MM-dd 00:00:00"), and d
\* otherwise; it emits expireDateSet exactly once and changes no other
\* field.
C20_ExpireDate ==
    [][ \A c \in Succeeding :
            Job(c).request = "setExpireDate" =>
                LET expiration == jobs'[c][1].reply.data.expiration
                    before == shares[Job(c).target]
                    after == shares'[Job(c).target]
                IN  /\ expiration = JString(Expiration) =>
                          after.expireDate = [valid |-> TRUE, y |-> 2027, m |-> 2, d |-> 28]
                    /\ expiration = JString(ExpirationShort) =>
                          after.expireDate = NullDate
                    /\ expiration.t # "string" => after.expireDate = Job(c).arg.value
                    /\ after = [before EXCEPT !.expireDate = after.expireDate]
                    /\ emitted'[c] = << Plain("expireDateSet") >>
      ]_vars

\* setExpireDate(2027-03-01) answered with expiration "2027-02-28 00:00:00"
C20_Witness ==
    \E c \in CallIds :
        /\ calls[c].op = "setExpireDate" /\ Job(c).state = "finished"
        /\ calls[c].arg.value = QDate(2027, 3, 1)
        /\ Job(c).reply.data.expiration = JString(Expiration)
        /\ shares[Job(c).target].expireDate = QDate(2027, 2, 28)
        /\ emitted[c] = << Plain("expireDateSet") >>

====
